---------------------------- MODULE Spec2Model ----------------------------
(***************************************************************************)
(* Function prologue emission of lib/SILGen/SILGenProlog.cpp: the entry    *)
(* block arguments, the ownership of each argument, the cleanup stack, the *)
(* variable-location table and the debug argument numbers produced by      *)
(* SILGenFunction::emitProlog.                                             *)
(***************************************************************************)
EXTENDS Integers, Sequences, FiniteSets, TLC

(***************************************************************************)
(* Bounds of the explored inputs.                                          *)
(***************************************************************************)
MaxParams == 2
MaxCaptures == 2
MaxScopeOps == 7

(***************************************************************************)
(* Types.  A type is a leaf (a scalar of the flattened calling convention) *)
(* or a tuple of types.  Leaf names: "Int" trivial loadable, "Obj"         *)
(* loadable reference, "Addr" address-only, "Block" an ObjC block function *)
(* type, "OptBlock" an Optional of it, "Buf" Builtin.UnsafeValueBuffer,    *)
(* "SelfMeta" the metatype of a DynamicSelfType.                           *)
(***************************************************************************)
Leaf(n) == [k |-> "leaf", n |-> n, io |-> FALSE, elts |-> <<>>]
InOutTy(n) == [k |-> "leaf", n |-> n, io |-> TRUE, elts |-> <<>>]
TupleTy(es) == [k |-> "tuple", n |-> "", io |-> FALSE, elts |-> es]

RECURSIVE isLoadable(_)
isLoadable(t) ==
  IF t.k = "tuple"
    THEN \A i \in 1..Len(t.elts) : isLoadable(t.elts[i])
    ELSE t.n # "Addr"

isTrivial(t) == t.k = "leaf" /\ t.n \in {"Int", "SelfMeta"}

RECURSIVE isMaterializable(_)
isMaterializable(t) ==
  IF t.k = "tuple"
    THEN \A i \in 1..Len(t.elts) : isMaterializable(t.elts[i])
    ELSE ~t.io

isReturnedIndirectlyInSIL(t, loweredAddresses) == loweredAddresses /\ ~isLoadable(t)

\* The leaves of a type, depth first and left to right, each with its path.
RECURSIVE Leaves(_, _)
RECURSIVE LeavesOfElts(_, _, _)
Leaves(t, path) ==
  IF t.k = "tuple" THEN LeavesOfElts(t.elts, path, 1)
  ELSE << [path |-> path, ty |-> t] >>
LeavesOfElts(es, path, i) ==
  IF i > Len(es) THEN <<>>
  ELSE Leaves(es[i], Append(path, i)) \o LeavesOfElts(es, path, i + 1)

(***************************************************************************)
(* Parameter conventions (ParameterConvention of SILParameterInfo).        *)
(***************************************************************************)
GuaranteedConvs == {"Direct_Guaranteed", "Indirect_In_Guaranteed"}
OwnedConvs == {"Direct_Owned", "Indirect_In"}
InoutConvs == {"Indirect_Inout", "Indirect_InoutAliasable"}
Conventions == GuaranteedConvs \cup OwnedConvs \cup InoutConvs
                 \cup {"Direct_Unowned", "Indirect_In_Constant"}

(***************************************************************************)
(* Sequence helpers.                                                       *)
(***************************************************************************)
Range(s) == {s[i] : i \in 1..Len(s)}
Count(s, x) == Cardinality({i \in 1..Len(s) : s[i] = x})
RECURSIVE Reverse(_)
Reverse(s) == IF s = <<>> THEN <<>> ELSE Append(Reverse(Tail(s)), Head(s))
RECURSIVE Concat(_)
Concat(ss) == IF ss = <<>> THEN <<>> ELSE Head(ss) \o Concat(Tail(ss))


VARIABLES
  pc,          \* position of the prologue driver
  fn,          \* the function being lowered (the input, never changed)
  parameters,  \* ArgumentInitHelper::parameters, the ParameterInfo queue
  args,        \* the entry block's arguments, in order of creation
  cleanups,    \* the cleanup stack, bottom first
  scopes,      \* open scopes: the cleanup stack depth at each push
  fired,       \* values released by a fired cleanup, in order
  forwarded,   \* values whose ownership was forwarded, in order
  retains,     \* values retained (copied to +1) by emitManagedRetain
  copies,      \* copies emitted (copy_block, copy_value, copy_addr)
  tuples,      \* one record per tuple reassembled by visitTupleType
  pops,        \* one record per ParameterInfo popped by visitType
  VarLocs,     \* writes of SGF.VarLocs, in order
  debug,       \* debug values emitted, each with its ArgNo
  captured,    \* one record per capture bound by emitCaptureArguments
  ArgNo,       \* the running argument number
  retArgNo,    \* what emitProlog(paramLists, ...) returned (0 before it returns)
  nval,        \* number of IR values created so far
  paramIdx,    \* next explicit parameter, in binding order
  capIdx,      \* next capture record
  ops          \* scope operations performed (scope-manager specification only)

vars == << pc, fn, parameters, args, cleanups, scopes, fired, forwarded, retains,
           copies, tuples, pops, VarLocs, debug, captured, ArgNo, retArgNo, nval,
           paramIdx, capIdx, ops >>

\* The part of the state the emission helpers read and write.
State ==
  [parameters |-> parameters, args |-> args, cleanups |-> cleanups,
   scopes |-> scopes, fired |-> fired, forwarded |-> forwarded,
   retains |-> retains, copies |-> copies, tuples |-> tuples, pops |-> pops,
   VarLocs |-> VarLocs, debug |-> debug, captured |-> captured, nval |-> nval,
   fatal |-> ""]

(***************************************************************************)
(* ManagedValue: a value and whether it carries a cleanup.                 *)
(***************************************************************************)
forUnmanaged(v) == [v |-> v, cleanup |-> FALSE, lv |-> FALSE]
forLValue(v) == [v |-> v, cleanup |-> FALSE, lv |-> TRUE]
Managed(v) == [v |-> v, cleanup |-> TRUE, lv |-> FALSE]

(***************************************************************************)
(* Cleanup scope manager (CleanupManager, Scope).                          *)
(***************************************************************************)
pushCleanup(st, v, kind) ==
  [st EXCEPT !.cleanups = Append(@, [val |-> v, active |-> TRUE, kind |-> kind])]

pushScope(st) == [st EXCEPT !.scopes = Append(@, Len(st.cleanups))]

\* The values of the active cleanups above depth d, top of the stack first.
FiredAbove(cs, d) ==
  LET idx == {i \in (d + 1)..Len(cs) : cs[i].active}
      RECURSIVE down(_)
      down(i) == IF i <= d THEN <<>>
                 ELSE (IF i \in idx THEN << cs[i].val >> ELSE <<>>) \o down(i - 1)
  IN down(Len(cs))

\* A pop that fires the cleanups in the order they were registered.
popScopeInRegistrationOrder(st) ==
  LET d == st.scopes[Len(st.scopes)]
  IN [st EXCEPT !.fired = @ \o Reverse(FiredAbove(st.cleanups, d)),
                !.cleanups = SubSeq(@, 1, d),
                !.scopes = SubSeq(@, 1, Len(@) - 1)]

popScope(st) ==
  LET d == st.scopes[Len(st.scopes)]
  IN [st EXCEPT !.fired = @ \o FiredAbove(st.cleanups, d),
                !.cleanups = SubSeq(@, 1, d),
                !.scopes = SubSeq(@, 1, Len(@) - 1)]

\* ManagedValue::forward: the cleanup is killed and the value handed over.
forward(st, mv) ==
  [st EXCEPT !.cleanups = [i \in DOMAIN @ |->
                             IF @[i].val = mv.v THEN [@[i] EXCEPT !.active = FALSE]
                             ELSE @[i]],
             !.forwarded = Append(@, mv.v)]

(***************************************************************************)
(* IR emission helpers.                                                    *)
(***************************************************************************)
createFunctionArgument(st, kind, decl, path, conv) ==
  [st |-> [st EXCEPT !.nval = @ + 1,
                     !.args = Append(@, [v |-> st.nval + 1, kind |-> kind,
                                         decl |-> decl, path |-> path,
                                         conv |-> conv])],
   v |-> st.nval + 1]

emitManagedRValueWithCleanup(st, v) ==
  [st |-> pushCleanup(st, v, "destroy"), mv |-> Managed(v)]

emitManagedRetain(st, v) ==
  [st |-> pushCleanup([st EXCEPT !.retains = Append(@, v)], v, "destroy"),
   mv |-> Managed(v)]

\* A copy into a fresh value: "what" names the instruction (copy_block,
\* copy_value, or copy_value_stored for a copy stored into a cell at once).
emitCopy(st, src, what) ==
  [st |-> [st EXCEPT !.nval = @ + 1,
                     !.copies = Append(@, [src |-> src, dst |-> st.nval + 1,
                                           into |-> 0, op |-> what])],
   v |-> st.nval + 1]

\* ManagedValue::copyUnmanaged: a +1 copy with its own cleanup.
copyUnmanaged(st, mv) ==
  LET c == emitCopy(st, mv.v, "copy_value")
  IN emitManagedRValueWithCleanup(c.st, c.v)

\* ManagedValue::copyInto: a copy of the value initializes the address.
copyInto(st, mv, addr) ==
  [st EXCEPT !.copies = Append(@, [src |-> mv.v, dst |-> 0, into |-> addr,
                                   op |-> "copy_addr"])]

emitTemporaryAllocation(st) ==
  [st |-> [st EXCEPT !.nval = @ + 1], v |-> st.nval + 1]


(***************************************************************************)
(* EmitBBArguments: the type destructurer.                                 *)
(***************************************************************************)
\* llvm_unreachable and ArrayRef::front() on an empty queue abort a build
\* with assertions; without them the behaviour is undefined, and fn.ub names
\* the convention the compiled code then happens to act on.
Abort(st, why) == [st EXCEPT !.fatal = why]

\* An unowned argument treated as borrowed: no retain, no cleanup.
getManagedValueUnownedBorrowed(st, arg, t, parameterInfo) ==
  LET conv == parameterInfo.conv
  IN CASE conv \in GuaranteedConvs \cup {"Direct_Unowned"} ->
            [st |-> st, mv |-> forUnmanaged(arg)]
       [] conv \in InoutConvs -> [st |-> st, mv |-> forLValue(arg)]
       [] conv \in OwnedConvs -> emitManagedRValueWithCleanup(st, arg)
       [] OTHER -> [st |-> Abort(st, "bad parameter convention"),
                    mv |-> forUnmanaged(arg)]

getManagedValue(st, arg, t, parameterInfo) ==
  LET conv == parameterInfo.conv
  IN CASE conv \in GuaranteedConvs -> [st |-> st, mv |-> forUnmanaged(arg)]
       [] conv = "Direct_Unowned" -> emitManagedRetain(st, arg)
       [] conv \in InoutConvs -> [st |-> st, mv |-> forLValue(arg)]
       [] conv \in OwnedConvs -> emitManagedRValueWithCleanup(st, arg)
       [] OTHER ->
            IF fn.ub = "abort"
              THEN [st |-> Abort(st, "bad parameter convention"),
                    mv |-> forUnmanaged(arg)]
            ELSE IF fn.ub \in OwnedConvs
              THEN emitManagedRValueWithCleanup(st, arg)
            ELSE [st |-> st, mv |-> forUnmanaged(arg)]

IsBlock(t) == t.n \in {"Block", "OptBlock"}


\* The block copy taking over the original's cleanup: the original is
\* forwarded into the copy.
visitTypeBlockCopyForwardsOriginal(st, t, ctx) ==
  IF st.fatal # "" THEN [st |-> st, mv |-> forUnmanaged(0)]
  ELSE IF st.parameters = <<>> /\ fn.ub = "abort"
    THEN [st |-> Abort(st, "no parameter info"), mv |-> forUnmanaged(0)]
  ELSE
    LET parameterInfo == IF st.parameters = <<>>
                           THEN [ix |-> 0, conv |-> fn.ub]
                           ELSE Head(st.parameters)
        s1 == [st EXCEPT !.parameters = IF @ = <<>> THEN <<>> ELSE Tail(@)]
        a == createFunctionArgument(s1, "param", ctx.pid, ctx.path,
                                    parameterInfo.conv)
        r == getManagedValue(a.st, a.v, t, parameterInfo)
        isBlockArg == ctx.functionArgs /\ IsBlock(t) /\ r.st.fatal = ""
        c == emitCopy(IF r.mv.cleanup THEN forward(r.st, r.mv) ELSE r.st,
                      r.mv.v, "copy_block")
        res == IF isBlockArg THEN emitManagedRValueWithCleanup(c.st, c.v) ELSE r
        rec == [ix |-> parameterInfo.ix, conv |-> parameterInfo.conv,
                pid |-> ctx.pid, path |-> ctx.path, arg |-> a.v,
                mv |-> r.mv,
                nretain |-> Len(r.st.retains) - Len(a.st.retains),
                ncleanup |-> Len(r.st.cleanups) - Len(a.st.cleanups),
                ncopy |-> Len(r.st.copies) - Len(a.st.copies),
                block |-> isBlockArg, out |-> res.mv]
    IN [st |-> [res.st EXCEPT !.pops = Append(@, rec)], mv |-> res.mv]

visitType(st, t, ctx) ==
  IF st.fatal # "" THEN [st |-> st, mv |-> forUnmanaged(0)]
  ELSE IF st.parameters = <<>> /\ fn.ub = "abort"
    THEN [st |-> Abort(st, "no parameter info"), mv |-> forUnmanaged(0)]
  ELSE
    LET parameterInfo == IF st.parameters = <<>>
                           THEN [ix |-> 0, conv |-> fn.ub]
                           ELSE Head(st.parameters)
        s1 == [st EXCEPT !.parameters = IF @ = <<>> THEN <<>> ELSE Tail(@)]
        a == createFunctionArgument(s1, "param", ctx.pid, ctx.path,
                                    parameterInfo.conv)
        r == getManagedValue(a.st, a.v, t, parameterInfo)
        isBlockArg == ctx.functionArgs /\ IsBlock(t) /\ r.st.fatal = ""
        c == emitCopy(r.st, r.mv.v, "copy_block")
        res == IF isBlockArg THEN emitManagedRValueWithCleanup(c.st, c.v) ELSE r
        rec == [ix |-> parameterInfo.ix, conv |-> parameterInfo.conv,
                pid |-> ctx.pid, path |-> ctx.path, arg |-> a.v,
                mv |-> r.mv,
                nretain |-> Len(r.st.retains) - Len(a.st.retains),
                ncleanup |-> Len(r.st.cleanups) - Len(a.st.cleanups),
                ncopy |-> Len(r.st.copies) - Len(a.st.copies),
                block |-> isBlockArg, out |-> res.mv]
    IN [st |-> [res.st EXCEPT !.pops = Append(@, rec)], mv |-> res.mv]

\* The values among vs whose cleanup is active in the cleanup stack cs.
ActiveOf(cs, vs) == {v \in vs : \E i \in 1..Len(cs) : cs[i].val = v /\ cs[i].active}

\* What visitTupleType did, recorded when it returns: s0 is the state when
\* the elements had been collected, s1 the state at the return.
LogTuple(s0, s1, t, elements, operands, mv, inMemory) ==
  [s1 EXCEPT !.tuples = Append(@,
     [v |-> mv.v, managed |-> mv.cleanup, inMemory |-> inMemory,
      loadable |-> isLoadable(t), elements |-> elements, operands |-> operands,
      npushed |-> Len(s1.cleanups) - Len(s0.cleanups),
      newActive |-> {s1.cleanups[i].val :
                       i \in {j \in (Len(s0.cleanups) + 1)..Len(s1.cleanups) :
                                s1.cleanups[j].active}},
      elementsActive |-> ActiveOf(s1.cleanups,
                                  {elements[i].v : i \in
                                     {j \in 1..Len(elements) : elements[j].cleanup}})])]

\* The elements used as they are: an owned one is not forwarded.
RECURSIVE useElementsInPlace(_, _, _, _)
useElementsInPlace(st, elements, i, elementValues) ==
  IF i > Len(elements) THEN [st |-> st, elementValues |-> elementValues]
  ELSE LET element == elements[i]
           cp == copyUnmanaged(st, element)
           s1 == IF element.cleanup THEN st ELSE forward(cp.st, cp.mv)
           value == IF element.cleanup THEN element.v ELSE cp.mv.v
       IN useElementsInPlace(s1, elements, i + 1, Append(elementValues, value))

\* Lines 183-188: each element moved (forwarded) or copied into a +1 operand.
RECURSIVE moveOrCopyElements(_, _, _, _)
moveOrCopyElements(st, elements, i, elementValues) ==
  IF i > Len(elements) THEN [st |-> st, elementValues |-> elementValues]
  ELSE LET element == elements[i]
           cp == copyUnmanaged(st, element)
           s1 == IF element.cleanup THEN forward(st, element)
                 ELSE forward(cp.st, cp.mv)
           value == IF element.cleanup THEN element.v ELSE cp.mv.v
       IN moveOrCopyElements(s1, elements, i + 1, Append(elementValues, value))

\* The +1 tuple returned without a cleanup.
reassembleInRegisterUnmanaged(st, t, elements, canBeGuaranteed) ==
  LET m == IF canBeGuaranteed
             THEN [st |-> st,
                   elementValues |-> [i \in 1..Len(elements) |-> elements[i].v]]
             ELSE moveOrCopyElements(st, elements, 1, <<>>)
      tupleValue == m.st.nval + 1
      s1 == [m.st EXCEPT !.nval = @ + 1]
      mv == forUnmanaged(tupleValue)
  IN [st |-> LogTuple(st, s1, t, elements, m.elementValues, mv, FALSE), mv |-> mv]

\* Lines 175-194: a loadable tuple (or any tuple under opaque values).
reassembleInRegister(st, t, elements, canBeGuaranteed) ==
  LET m == IF canBeGuaranteed
             THEN [st |-> st,
                   elementValues |-> [i \in 1..Len(elements) |-> elements[i].v]]
             ELSE moveOrCopyElements(st, elements, 1, <<>>)
      tupleValue == m.st.nval + 1
      s1 == [m.st EXCEPT !.nval = @ + 1]
      res == IF canBeGuaranteed
               THEN [st |-> s1, mv |-> forUnmanaged(tupleValue)]
               ELSE emitManagedRValueWithCleanup(s1, tupleValue)
  IN [st |-> LogTuple(st, res.st, t, elements, m.elementValues, res.mv, FALSE),
      mv |-> res.mv]

\* Lines 201-209: each element moved or copied into the buffer.
RECURSIVE storeElements(_, _, _, _)
storeElements(st, elements, i, buffer) ==
  IF i > Len(elements) THEN st
  ELSE LET element == elements[i]
           s1 == IF element.cleanup THEN forward(st, element)
                 ELSE copyInto(st, element, buffer)
       IN storeElements(s1, elements, i + 1, buffer)

\* Lines 195-211: an address-only tuple, built in a temporary.
reassembleInMemory(st, t, elements) ==
  LET buffer == emitTemporaryAllocation(st)
      s1 == storeElements(buffer.st, elements, 1, buffer.v)
      res == emitManagedRValueWithCleanup(s1, buffer.v)
  IN [st |-> LogTuple(st, res.st, t, elements,
                      [i \in 1..Len(elements) |-> elements[i].v], res.mv, TRUE),
      mv |-> res.mv]

RECURSIVE visit(_, _, _)
RECURSIVE visitElements(_, _, _, _, _)
RECURSIVE visitElementsLastFirst(_, _, _, _, _)

\* The elements visited from the last to the first.
visitElementsLastFirst(st, elts, ctx, i, elements) ==
  IF i > Len(elts) THEN [st |-> st, elements |-> elements]
  ELSE LET k == Len(elts) + 1 - i
           elt == visit(st, elts[k], [ctx EXCEPT !.path = Append(@, k)])
       IN visitElementsLastFirst(elt.st, elts, ctx, i + 1, << elt.mv >> \o elements)

\* Lines 166-173: the exploded elements, collected in order.
visitElements(st, elts, ctx, i, elements) ==
  IF i > Len(elts) THEN [st |-> st, elements |-> elements]
  ELSE LET elt == visit(st, elts[i], [ctx EXCEPT !.path = Append(@, i)])
       IN visitElements(elt.st, elts, ctx, i + 1, Append(elements, elt.mv))

visitTupleType(st, t, ctx) ==
  LET e == visitElements(st, t.elts, ctx, 1, <<>>)
      canBeGuaranteed == isLoadable(t)
                           /\ \A i \in 1..Len(e.elements) : ~e.elements[i].cleanup
  IN IF e.st.fatal # "" THEN [st |-> e.st, mv |-> forUnmanaged(0)]
     ELSE IF isLoadable(t) \/ ~fn.useLoweredAddresses
       THEN reassembleInRegister(e.st, t, e.elements, canBeGuaranteed)
     ELSE reassembleInMemory(e.st, t, e.elements)

visit(st, t, ctx) ==
  IF t.k = "tuple" THEN visitTupleType(st, t, ctx) ELSE visitType(st, t, ctx)


(***************************************************************************)
(* ArgumentInitHelper: explicit parameters.  A parameter declaration is    *)
(* [pid, hasName, ty]; pid is its place in declaration order.              *)
(***************************************************************************)
isInOut(vd) == vd.ty.k = "leaf" /\ vd.ty.io

\* Whether the lowered type of a value of type ty is an address.
isAddress(ty) == (ty.k = "leaf" /\ ty.io) \/ (fn.useLoweredAddresses /\ ~isLoadable(ty))

VarLoc(var, value, box) == [var |-> var, value |-> value, box |-> box]

createDebugValue(st, var, v, argNo, op) ==
  [st EXCEPT !.debug = Append(@, [var |-> var, v |-> v, ArgNo |-> argNo, op |-> op])]

makeArgument(st, ty, pid, path) ==
  visit(st, ty, [pid |-> pid, path |-> path, functionArgs |-> TRUE])


\* The Builtin.UnsafeValueBuffer special case falling through to the common
\* binding instead of returning.
makeArgumentIntoBindingBufferFallsThrough(st, ty, vd, argNo) ==
  LET a == makeArgument(st, ty, vd.pid, <<>>)
      var == << "param", vd.pid >>
      cast == a.st.nval + 1
      isSelfMeta == ~isInOut(vd) /\ ty.k = "leaf" /\ ty.n = "SelfMeta"
      argrv == IF isSelfMeta THEN forUnmanaged(cast) ELSE a.mv
      s0 == IF isInOut(vd) /\ ty.n = "Buf"
              THEN createDebugValue([a.st EXCEPT !.VarLocs = Append(@, VarLoc(var, a.mv.v, 0))],
                                    var, a.mv.v, argNo, "debug_value_addr")
            ELSE a.st
      s1 == IF isSelfMeta THEN [s0 EXCEPT !.nval = @ + 1] ELSE s0
      s2 == [s1 EXCEPT !.VarLocs = Append(@, VarLoc(var, argrv.v, 0))]
  IN IF a.st.fatal # "" THEN a.st
     ELSE createDebugValue(s2, var, argrv.v, argNo,
                           IF isAddress(ty) THEN "debug_value_addr" ELSE "debug_value")

makeArgumentIntoBinding(st, ty, vd, argNo) ==
  LET a == makeArgument(st, ty, vd.pid, <<>>)
      var == << "param", vd.pid >>
      cast == a.st.nval + 1
      isSelfMeta == ~isInOut(vd) /\ ty.k = "leaf" /\ ty.n = "SelfMeta"
      argrv == IF isSelfMeta THEN forUnmanaged(cast) ELSE a.mv
      s1 == IF isSelfMeta THEN [a.st EXCEPT !.nval = @ + 1] ELSE a.st
      s2 == [s1 EXCEPT !.VarLocs = Append(@, VarLoc(var, argrv.v, 0))]
  IN IF a.st.fatal # "" THEN a.st
     ELSE IF isInOut(vd) /\ ty.n = "Buf"
       THEN createDebugValue([a.st EXCEPT !.VarLocs = Append(@, VarLoc(var, a.mv.v, 0))],
                             var, a.mv.v, argNo, "debug_value_addr")
     ELSE createDebugValue(s2, var, argrv.v, argNo,
                           IF isAddress(ty) THEN "debug_value_addr" ELSE "debug_value")

\* pd = 0 stands for the null ParamDecl of a tuple element.
RECURSIVE emitAnonymousParam(_, _, _, _, _, _)
RECURSIVE emitAnonymousElements(_, _, _, _, _, _)
\* The early return for a tuple element (no declaration) taken with the
\* discard scope left open.
emitAnonymousParamScopeLeftOpen(st, type, pd, pid, path, argNo) ==
  IF ~isMaterializable(type) /\ type.k = "tuple"
    THEN emitAnonymousElements(st, type.elts, pid, path, argNo, 1)
  ELSE IF st.fatal # "" THEN st
  ELSE
    LET discardScope == pushScope(st)
        argrv == makeArgument(discardScope, type, pid, path)
        var == << "param", pid >>
    IN IF argrv.st.fatal # "" THEN argrv.st
       ELSE IF pd = 0 THEN argrv.st
       ELSE popScope(createDebugValue(argrv.st, var, argrv.mv.v, argNo,
                       IF isAddress(type) THEN "debug_value_addr" ELSE "debug_value"))

emitAnonymousElements(st, elts, pid, path, argNo, i) ==
  IF i > Len(elts) THEN st
  ELSE emitAnonymousElements(
         emitAnonymousParam(st, elts[i], 0, pid, Append(path, i), argNo),
         elts, pid, path, argNo, i + 1)

emitAnonymousParam(st, type, pd, pid, path, argNo) ==
  IF ~isMaterializable(type) /\ type.k = "tuple"
    THEN emitAnonymousElements(st, type.elts, pid, path, argNo, 1)
  ELSE IF st.fatal # "" THEN st
  ELSE
    LET discardScope == pushScope(st)
        argrv == makeArgument(discardScope, type, pid, path)
        var == << "param", pid >>
    IN IF argrv.st.fatal # "" THEN argrv.st
       ELSE IF pd = 0 THEN popScope(argrv.st)
       ELSE popScope(createDebugValue(argrv.st, var, argrv.mv.v, argNo,
                       IF isAddress(type) THEN "debug_value_addr" ELSE "debug_value"))

\* Returns the state after the parameter; ArgNo was incremented by the caller
\* of this operator (line 300), which hands the new value in.
emitParam(st, PD, argNo) ==
  IF PD.hasName THEN makeArgumentIntoBinding(st, PD.ty, PD, argNo)
  ELSE emitAnonymousParam(st, PD.ty, PD.pid, PD.pid, <<>>, argNo)

(***************************************************************************)
(* Captures.  A capture record is [cid, kind, dynSelf, settable, trivial]. *)
(***************************************************************************)
Captured(capture, arg, value, box, cleanupOn, copy, ncleanup) ==
  [cid |-> capture.cid, kind |-> capture.kind, arg |-> arg, value |-> value,
   box |-> box, cleanupOn |-> cleanupOn, copy |-> copy, ncleanup |-> ncleanup,
   settable |-> capture.settable, trivial |-> capture.trivial]

\* The copy made for a settable variable in guaranteed mode left without a
\* destroy cleanup.
emitCaptureConstantNoDestroyOfCopy(st, capture, argNo) ==
  LET var == << "capture", capture.cid >>
      a == createFunctionArgument(st, "capture", capture.cid, <<>>, "Constant")
      guaranteed == fn.EnableGuaranteedClosureContexts
      addr == emitTemporaryAllocation(a.st)
      cp == emitCopy(addr.st, a.v, "copy_value_stored")
      copied == capture.settable /\ guaranteed
      s1 == IF ~capture.settable THEN a.st
            ELSE IF guaranteed THEN cp.st ELSE addr.st
      val == IF capture.settable THEN addr.v ELSE a.v
      s2 == createDebugValue([s1 EXCEPT !.VarLocs = Append(@, VarLoc(var, val, 0))],
                             var, val, argNo,
                             IF capture.settable THEN "alloc_stack" ELSE "debug_value")
      destroy == (~guaranteed) /\ ~capture.trivial
      s3 == IF destroy THEN pushCleanup(s2, val, "destroy") ELSE s2
  IN [s3 EXCEPT !.captured = Append(@,
        Captured(capture, a.v, val, 0, IF destroy THEN val ELSE 0,
                 IF copied THEN cp.v ELSE 0,
                 Len(s3.cleanups) - Len(st.cleanups)))]


\* The destroy cleanup entered on the incoming argument even when the
\* variable lives in a local cell.
emitCaptureConstantDestroysArgument(st, capture, argNo) ==
  LET var == << "capture", capture.cid >>
      a == createFunctionArgument(st, "capture", capture.cid, <<>>, "Constant")
      guaranteed == fn.EnableGuaranteedClosureContexts
      addr == emitTemporaryAllocation(a.st)
      cp == emitCopy(addr.st, a.v, "copy_value_stored")
      copied == capture.settable /\ guaranteed
      NeedToDestroyValueAtExit == (~guaranteed) \/ copied
      s1 == IF ~capture.settable THEN a.st
            ELSE IF guaranteed THEN cp.st ELSE addr.st
      val == IF capture.settable THEN addr.v ELSE a.v
      s2 == createDebugValue([s1 EXCEPT !.VarLocs = Append(@, VarLoc(var, val, 0))],
                             var, val, argNo,
                             IF capture.settable THEN "alloc_stack" ELSE "debug_value")
      destroy == NeedToDestroyValueAtExit /\ ~capture.trivial
      s3 == IF destroy THEN pushCleanup(s2, a.v, "destroy") ELSE s2
  IN [s3 EXCEPT !.captured = Append(@,
        Captured(capture, a.v, val, 0, IF destroy THEN a.v ELSE 0,
                 IF copied THEN cp.v ELSE 0,
                 Len(s3.cleanups) - Len(st.cleanups)))]

emitCaptureConstant(st, capture, argNo) ==
  LET var == << "capture", capture.cid >>
      a == createFunctionArgument(st, "capture", capture.cid, <<>>, "Constant")
      guaranteed == fn.EnableGuaranteedClosureContexts
      addr == emitTemporaryAllocation(a.st)
      cp == emitCopy(addr.st, a.v, "copy_value_stored")
      copied == capture.settable /\ guaranteed
      NeedToDestroyValueAtExit == (~guaranteed) \/ copied
      s1 == IF ~capture.settable THEN a.st
            ELSE IF guaranteed THEN cp.st ELSE addr.st
      val == IF capture.settable THEN addr.v ELSE a.v
      s2 == createDebugValue([s1 EXCEPT !.VarLocs = Append(@, VarLoc(var, val, 0))],
                             var, val, argNo,
                             IF capture.settable THEN "alloc_stack" ELSE "debug_value")
      destroy == NeedToDestroyValueAtExit /\ ~capture.trivial
      s3 == IF destroy THEN pushCleanup(s2, val, "destroy") ELSE s2
  IN [s3 EXCEPT !.captured = Append(@,
        Captured(capture, a.v, val, 0, IF destroy THEN val ELSE 0,
                 IF copied THEN cp.v ELSE 0,
                 Len(s3.cleanups) - Len(st.cleanups)))]


\* The release cleanup registered on the projected address, not on the box.
emitCaptureBoxReleaseProjection(st, capture, argNo) ==
  LET var == << "capture", capture.cid >>
      box == createFunctionArgument(st, "capture", capture.cid, <<>>, "Box")
      addr == box.st.nval + 1
      s1 == [box.st EXCEPT !.nval = @ + 1,
                           !.VarLocs = Append(@, VarLoc(var, addr, box.v))]
      s2 == createDebugValue(s1, var, addr, argNo, "debug_value_addr")
      release == ~fn.EnableGuaranteedClosureContexts
      s3 == IF release THEN pushCleanup(s2, addr, "strong_release") ELSE s2
  IN [s3 EXCEPT !.captured = Append(@,
        Captured(capture, box.v, addr, box.v, IF release THEN addr ELSE 0, 0,
                 Len(s3.cleanups) - Len(st.cleanups)))]

emitCaptureBox(st, capture, argNo) ==
  LET var == << "capture", capture.cid >>
      box == createFunctionArgument(st, "capture", capture.cid, <<>>, "Box")
      addr == box.st.nval + 1
      s1 == [box.st EXCEPT !.nval = @ + 1,
                           !.VarLocs = Append(@, VarLoc(var, addr, box.v))]
      s2 == createDebugValue(s1, var, addr, argNo, "debug_value_addr")
      release == ~fn.EnableGuaranteedClosureContexts
      s3 == IF release THEN pushCleanup(s2, box.v, "strong_release") ELSE s2
  IN [s3 EXCEPT !.captured = Append(@,
        Captured(capture, box.v, addr, box.v, IF release THEN box.v ELSE 0, 0,
                 Len(s3.cleanups) - Len(st.cleanups)))]


\* The address argument given a destroy cleanup when the context is not
\* guaranteed, as a by-value capture is.
emitCaptureStorageAddressDestroyed(st, capture, argNo) ==
  LET var == << "capture", capture.cid >>
      addr == createFunctionArgument(st, "capture", capture.cid, <<>>, "StorageAddress")
      s1 == [addr.st EXCEPT !.VarLocs = Append(@, VarLoc(var, addr.v, 0))]
      s2 == createDebugValue(s1, var, addr.v, argNo, "debug_value_addr")
      destroy == ~fn.EnableGuaranteedClosureContexts
      s3 == IF destroy THEN pushCleanup(s2, addr.v, "destroy") ELSE s2
  IN [s3 EXCEPT !.captured = Append(@, Captured(capture, addr.v, addr.v, 0,
                                                IF destroy THEN addr.v ELSE 0, 0,
                                                IF destroy THEN 1 ELSE 0))]

emitCaptureStorageAddress(st, capture, argNo) ==
  LET var == << "capture", capture.cid >>
      addr == createFunctionArgument(st, "capture", capture.cid, <<>>, "StorageAddress")
      s1 == [addr.st EXCEPT !.VarLocs = Append(@, VarLoc(var, addr.v, 0))]
      s2 == createDebugValue(s1, var, addr.v, argNo, "debug_value_addr")
  IN [s2 EXCEPT !.captured = Append(@, Captured(capture, addr.v, addr.v, 0, 0, 0, 0))]

emitCaptureArguments(st, capture, argNo) ==
  CASE capture.kind = "None" ->
         [st EXCEPT !.captured = Append(@, Captured(capture, 0, 0, 0, 0, 0, 0))]
    [] capture.kind = "Constant" -> emitCaptureConstant(st, capture, argNo)
    [] capture.kind = "Box" -> emitCaptureBox(st, capture, argNo)
    [] capture.kind = "StorageAddress" -> emitCaptureStorageAddress(st, capture, argNo)

(***************************************************************************)
(* Indirect results.                                                       *)
(***************************************************************************)
\* A tuple result treated as one leaf.
emitIndirectResultParametersUnexpanded(st, resultType, path) ==
  IF ~isReturnedIndirectlyInSIL(resultType, fn.useLoweredAddresses) THEN st
  ELSE createFunctionArgument(st, "indirect", 0, path, "Indirect_Out").st

RECURSIVE emitIndirectResultParameters(_, _, _)
RECURSIVE emitIndirectResultElements(_, _, _, _)
emitIndirectResultElements(st, elts, path, i) ==
  IF i > Len(elts) THEN st
  ELSE emitIndirectResultElements(
         emitIndirectResultParameters(st, elts[i], Append(path, i)), elts, path, i + 1)

emitIndirectResultParameters(st, resultType, path) ==
  IF resultType.k = "tuple" THEN emitIndirectResultElements(st, resultType.elts, path, 1)
  ELSE IF ~isReturnedIndirectlyInSIL(resultType, fn.useLoweredAddresses) THEN st
  ELSE createFunctionArgument(st, "indirect", 0, path, "Indirect_Out").st


(***************************************************************************)
(* The functions explored.                                                 *)
(***************************************************************************)
Obj == Leaf("Obj")
Addr == Leaf("Addr")
Block == Leaf("Block")

Decl(hasName, ty) == [hasName |-> hasName, ty |-> ty]

ParamChoices ==
  { Decl(TRUE, Obj), Decl(TRUE, Addr), Decl(TRUE, Block), Decl(TRUE, Leaf("OptBlock")),
    Decl(TRUE, TupleTy(<< Obj, Obj >>)), Decl(TRUE, TupleTy(<< Obj, Addr >>)),
    Decl(TRUE, TupleTy(<< Obj, TupleTy(<< Block, Obj >>) >>)),
    Decl(TRUE, TupleTy(<< >>)),
    Decl(TRUE, InOutTy("Obj")), Decl(TRUE, InOutTy("Buf")),
    Decl(TRUE, Leaf("SelfMeta")),
    Decl(FALSE, Obj), Decl(FALSE, TupleTy(<< Obj, Addr >>)),
    Decl(FALSE, TupleTy(<< InOutTy("Obj"), Obj >>)),
    Decl(FALSE, TupleTy(<< TupleTy(<< InOutTy("Obj"), Block >>), Obj >>)) }

Policies == {"guaranteed", "owned", "unowned", "mixedOG", "mixedGO"}

\* The convention the lowered function type gives the i-th leaf.
ConvFor(ty, policy, i) ==
  LET own == policy = "owned" \/ (policy = "mixedOG" /\ i % 2 = 1)
                \/ (policy = "mixedGO" /\ i % 2 = 0)
  IN IF ty.io
       THEN (IF policy \in {"guaranteed", "owned"} THEN "Indirect_Inout"
             ELSE "Indirect_InoutAliasable")
     ELSE IF ty.n = "Addr"
       THEN (IF own \/ policy = "unowned" THEN "Indirect_In"
             ELSE "Indirect_In_Guaranteed")
     ELSE IF own THEN "Direct_Owned"
     ELSE IF policy = "unowned" THEN "Direct_Unowned"
     ELSE "Direct_Guaranteed"

Capture(kind, dynSelf, settable, trivial) ==
  [kind |-> kind, dynSelf |-> dynSelf, settable |-> settable, trivial |-> trivial]

CaptureChoices ==
  { Capture("None", FALSE, FALSE, FALSE), Capture("Box", FALSE, TRUE, FALSE),
    Capture("StorageAddress", FALSE, FALSE, FALSE),
    Capture("Constant", TRUE, FALSE, TRUE) }
  \cup { Capture("Constant", FALSE, s, t) : s \in BOOLEAN, t \in BOOLEAN }

ResultTypes ==
  { Obj, Addr, TupleTy(<< Obj, Addr >>), TupleTy(<< Addr, TupleTy(<< Obj, Addr >>) >>) }

SeqsUpTo(S, n) == UNION {[1..k -> S] : k \in 0..n}


\* The parameter lists taken from the outermost to the innermost.
BindingOrderOutermostFirst(paramLists) == Concat(paramLists)

\* The parameters in binding order: the lists reversed, each in its own order.
BindingOrder(paramLists) == Concat(Reverse(paramLists))

AllLeaves(order) == Concat([i \in 1..Len(order) |-> Leaves(order[i].ty, <<>>)])

EditQueue(q, edit) ==
  CASE edit = "short" -> SubSeq(q, 1, Len(q) - 1)
    [] edit = "long" -> Append(q, [ix |-> Len(q) + 1, conv |-> "Direct_Owned"])
    [] edit = "constant" -> [q EXCEPT ![1].conv = "Indirect_In_Constant"]
    [] OTHER -> q

MkFn(decls, split, policy, resultType, caps, throws, guaranteed, lowered, edit, ub) ==
  LET params == [i \in 1..Len(decls) |->
                   [pid |-> i, hasName |-> decls[i].hasName, ty |-> decls[i].ty]]
      lists == IF split = 0 THEN << params >>
               ELSE << SubSeq(params, 1, split), SubSeq(params, split + 1, Len(params)) >>
      leaves == AllLeaves(BindingOrder(lists))
  IN [resultType |-> resultType, paramLists |-> lists,
      parameters |-> EditQueue([i \in 1..Len(leaves) |->
                                  [ix |-> i, conv |-> ConvFor(leaves[i].ty, policy, i)]],
                               edit),
      captures |-> [i \in 1..Len(caps) |->
                      [cid |-> i, kind |-> caps[i].kind, dynSelf |-> caps[i].dynSelf,
                       settable |-> caps[i].settable, trivial |-> caps[i].trivial]],
      throws |-> throws, EnableGuaranteedClosureContexts |-> guaranteed,
      useLoweredAddresses |-> lowered, ub |-> ub, destructor |-> FALSE]

\* Rich parameter types, no captures.
FamilyParams ==
  { MkFn(d, 0, p, Obj, << >>, FALSE, FALSE, TRUE, "none", "abort") :
      d \in SeqsUpTo(ParamChoices, MaxParams), p \in Policies }

\* Opaque values (no lowered addresses): one parameter.
FamilyOpaque ==
  { MkFn(<< d >>, 0, p, Addr, << >>, FALSE, FALSE, FALSE, "none", "abort") :
      d \in ParamChoices, p \in Policies }

\* Rich captures.
FamilyCaptures ==
  { MkFn(d, 0, "owned", Obj, c, t, g, TRUE, "none", "abort") :
      d \in {<< >>, << Decl(TRUE, Obj) >>}, c \in SeqsUpTo(CaptureChoices, MaxCaptures),
      t \in BOOLEAN, g \in BOOLEAN }

\* The shape of the driver: results, parameter lists, captures, throwing.
DriverShapes ==
  { << d, s >> \in SeqsUpTo({Decl(TRUE, Obj), Decl(FALSE, TupleTy(<< Obj, Obj >>))},
                            MaxParams) \X (0..MaxParams) : s = 0 \/ s < Len(d) }
FamilyDriver ==
  { MkFn(ds[1], ds[2], "guaranteed", r, [i \in 1..k |-> Capture("Box", FALSE, TRUE, FALSE)],
         t, FALSE, l, "none", "abort") :
      ds \in DriverShapes, r \in ResultTypes, k \in 0..MaxCaptures,
      t \in BOOLEAN, l \in BOOLEAN }

\* Ill-formed lowered function types.
FamilyFatal ==
  { MkFn(d, 0, "owned", Obj, << Capture("Box", FALSE, TRUE, FALSE) >>, TRUE, FALSE, TRUE,
         e, u) :
      d \in { << Decl(TRUE, TupleTy(<< Obj, Addr >>)) >>,
              << Decl(FALSE, TupleTy(<< Obj, Obj >>)) >>,
              << Decl(TRUE, Addr), Decl(TRUE, Obj) >> },
      e \in {"short", "long", "constant"},
      u \in {"abort", "Direct_Guaranteed", "Direct_Owned"} }

\* A dynamic-self record between two other capture records.
FamilyDynamicSelf ==
  { MkFn(<< Decl(TRUE, Obj) >>, 0, "owned", Obj,
         << x, Capture("Constant", TRUE, FALSE, TRUE), y >>, TRUE, g, TRUE,
         "none", "abort") :
      x \in {c \in CaptureChoices : ~c.dynSelf}, y \in CaptureChoices, g \in BOOLEAN }

\* The single parameter list of f cut into three lists, after the a-th and
\* the b-th parameter (a curried function).
Curry(f, a, b, policy) ==
  LET ps == f.paramLists[1]
      lists == << SubSeq(ps, 1, a), SubSeq(ps, a + 1, b), SubSeq(ps, b + 1, Len(ps)) >>
      leaves == AllLeaves(BindingOrder(lists))
  IN [f EXCEPT !.paramLists = lists,
               !.parameters = [i \in 1..Len(leaves) |->
                                 [ix |-> i, conv |-> ConvFor(leaves[i].ty, policy, i)]]]

\* Three parameter lists of one, two and one parameters.
FamilyCurried ==
  { Curry(MkFn(d, 0, "owned", Obj, << >>, t, FALSE, TRUE, "none", "abort"), 1, 3, "owned") :
      d \in [1..4 -> {Decl(TRUE, Obj), Decl(TRUE, TupleTy(<< Obj, Addr >>)),
                      Decl(FALSE, Obj)}],
      t \in BOOLEAN }

\* Tuple parameters, named and unnamed, with captures of every kind.
FamilyOrdinals ==
  { MkFn(<< Decl(TRUE, TupleTy(<< Obj, Addr >>)),
            Decl(FALSE, TupleTy(<< InOutTy("Obj"), Obj >>)) >>, 0, "owned", Obj, c, t,
         FALSE, TRUE, "none", "abort") :
      c \in { << Capture("None", FALSE, FALSE, FALSE), Capture("Box", FALSE, TRUE, FALSE) >>,
              << Capture("Constant", FALSE, TRUE, FALSE), Capture("None", FALSE, FALSE, FALSE),
                 Capture("StorageAddress", FALSE, FALSE, FALSE) >>,
              << Capture("None", FALSE, FALSE, FALSE), Capture("Constant", TRUE, FALSE, TRUE),
                 Capture("Box", FALSE, TRUE, FALSE) >> },
      t \in BOOLEAN }

\* A destructor: its prologue is emitSelfDecl alone.
FamilyDestructor ==
  { [MkFn(<< >>, 0, "owned", Obj, << >>, FALSE, g, TRUE, "none", "abort")
       EXCEPT !.destructor = TRUE] : g \in BOOLEAN }

Functions ==
  FamilyParams \cup FamilyOpaque \cup FamilyCaptures \cup FamilyDriver \cup FamilyFatal
    \cup FamilyDynamicSelf \cup FamilyDestructor \cup FamilyCurried
    \cup FamilyOrdinals

(***************************************************************************)
(* The prologue driver.                                                    *)
(***************************************************************************)
Empty ==
  /\ parameters = << >> /\ args = << >> /\ cleanups = << >>
  /\ fired = << >> /\ forwarded = << >> /\ retains = << >> /\ copies = << >>
  /\ tuples = << >> /\ pops = << >> /\ VarLocs = << >> /\ debug = << >>
  /\ captured = << >> /\ ArgNo = 0 /\ retArgNo = 0 /\ nval = 0
  /\ paramIdx = 1 /\ capIdx = 1 /\ ops = 0

\* The function's own scope is open when the prologue starts.
Init ==
  /\ fn \in Functions
  /\ pc = "start"
  /\ scopes = << 0 >>
  /\ Empty

Apply(st) ==
  /\ parameters' = st.parameters /\ args' = st.args /\ cleanups' = st.cleanups
  /\ scopes' = st.scopes /\ fired' = st.fired /\ forwarded' = st.forwarded
  /\ retains' = st.retains /\ copies' = st.copies /\ tuples' = st.tuples
  /\ pops' = st.pops /\ VarLocs' = st.VarLocs /\ debug' = st.debug
  /\ captured' = st.captured /\ nval' = st.nval


\* Lines 24-34: emitSelfDecl, the whole prologue of a destructor.
emitSelfDecl(st) ==
  LET var == << "self", 0 >>
      selfValue == createFunctionArgument(st, "self", 0, << >>, "Direct_Guaranteed")
      s1 == [selfValue.st EXCEPT !.VarLocs = Append(@, VarLoc(var, selfValue.v, 0))]
  IN createDebugValue(s1, var, selfValue.v, 1, "debug_value")

EmitSelfDecl ==
  /\ pc = "start" /\ fn.destructor
  /\ Apply(emitSelfDecl(State))
  /\ pc' = "done"
  /\ UNCHANGED << fn, ArgNo, retArgNo, paramIdx, capIdx, ops >>

\* Lines 512-518: the indirect results, then the ArgumentInitHelper is built.
EmitIndirectResults ==
  /\ pc = "start" /\ ~fn.destructor
  /\ Apply([emitIndirectResultParameters(State, fn.resultType, << >>)
              EXCEPT !.parameters = fn.parameters])
  /\ pc' = "params"
  /\ UNCHANGED << fn, ArgNo, retArgNo, paramIdx, capIdx, ops >>


\* A parameter consuming one ordinal for each of its leaves.
EmitParamOrdinalPerLeaf ==
  /\ pc = "params"
  /\ paramIdx <= Len(BindingOrder(fn.paramLists))
  /\ LET PD == BindingOrder(fn.paramLists)[paramIdx]
         n == Len(Leaves(PD.ty, << >>))
         st == emitParam(State, PD, ArgNo + n)
     IN /\ Apply(st)
        /\ pc' = IF st.fatal # "" THEN "fatal" ELSE "params"
        /\ ArgNo' = ArgNo + n
  /\ paramIdx' = paramIdx + 1
  /\ UNCHANGED << fn, retArgNo, capIdx, ops >>

\* Lines 520-525, one iteration: emitter.emitParam(param).
EmitParam ==
  /\ pc = "params"
  /\ paramIdx <= Len(BindingOrder(fn.paramLists))
  /\ LET st == emitParam(State, BindingOrder(fn.paramLists)[paramIdx], ArgNo + 1)
     IN /\ Apply(st)
        /\ pc' = IF st.fatal # "" THEN "fatal" ELSE "params"
  /\ ArgNo' = ArgNo + 1
  /\ paramIdx' = paramIdx + 1
  /\ UNCHANGED << fn, retArgNo, capIdx, ops >>

\* The $error debug value numbered with ArgNo++ instead of ++ArgNo.
EmitErrorSlotPostIncrement ==
  /\ pc = "params"
  /\ paramIdx > Len(BindingOrder(fn.paramLists))
  /\ Apply(IF fn.throws
             THEN createDebugValue(State, << "$error", 0 >>, 0, ArgNo, "debug_value")
             ELSE State)
  /\ ArgNo' = IF fn.throws THEN ArgNo + 1 ELSE ArgNo
  /\ retArgNo' = ArgNo'
  /\ pc' = "captures"
  /\ UNCHANGED << fn, paramIdx, capIdx, ops >>

\* Lines 527-541: the $error debug value, and the return of ArgNo.
EmitErrorSlot ==
  /\ pc = "params"
  /\ paramIdx > Len(BindingOrder(fn.paramLists))
  /\ Apply(IF fn.throws
             THEN createDebugValue(State, << "$error", 0 >>, 0, ArgNo + 1, "debug_value")
             ELSE State)
  /\ ArgNo' = IF fn.throws THEN ArgNo + 1 ELSE ArgNo
  /\ retArgNo' = ArgNo'
  /\ pc' = "captures"
  /\ UNCHANGED << fn, paramIdx, capIdx, ops >>

\* The capture loop run once the parameters are bound, before the error slot.
EmitCaptureBeforeErrorSlot ==
  /\ pc \in {"params", "captures"}
  /\ paramIdx > Len(BindingOrder(fn.paramLists))
  /\ capIdx <= Len(fn.captures)
  /\ LET capture == fn.captures[capIdx]
     IN IF capture.dynSelf
          THEN /\ Apply(createFunctionArgument(State, "selfmeta", capture.cid, << >>,
                                               "Metatype").st)
               /\ ArgNo' = ArgNo
               /\ pc' = "done"
          ELSE /\ Apply(emitCaptureArguments(State, capture, ArgNo + 1))
               /\ ArgNo' = ArgNo + 1
               /\ pc' = pc
  /\ capIdx' = capIdx + 1
  /\ UNCHANGED << fn, retArgNo, paramIdx, ops >>

\* The capture bound with ArgNo + 1, the counter left as it was.
EmitCaptureNoIncrement ==
  /\ pc = "captures"
  /\ capIdx <= Len(fn.captures)
  /\ LET capture == fn.captures[capIdx]
     IN IF capture.dynSelf
          THEN /\ Apply(createFunctionArgument(State, "selfmeta", capture.cid, << >>,
                                               "Metatype").st)
               /\ pc' = "done"
          ELSE /\ Apply(emitCaptureArguments(State, capture, ArgNo + 1))
               /\ pc' = "captures"
  /\ capIdx' = capIdx + 1
  /\ UNCHANGED << fn, ArgNo, retArgNo, paramIdx, ops >>


\* The capture loop going on to the next record after the dynamic-self one.
EmitCaptureContinueAfterDynamicSelf ==
  /\ pc = "captures"
  /\ capIdx <= Len(fn.captures)
  /\ LET capture == fn.captures[capIdx]
     IN IF capture.dynSelf
          THEN /\ Apply(createFunctionArgument(State, "selfmeta", capture.cid, << >>,
                                               "Metatype").st)
               /\ ArgNo' = ArgNo
          ELSE /\ Apply(emitCaptureArguments(State, capture, ArgNo + 1))
               /\ ArgNo' = ArgNo + 1
  /\ pc' = "captures"
  /\ capIdx' = capIdx + 1
  /\ UNCHANGED << fn, retArgNo, paramIdx, ops >>

\* Lines 462-474, one iteration of the capture loop.
EmitCapture ==
  /\ pc = "captures"
  /\ capIdx <= Len(fn.captures)
  /\ LET capture == fn.captures[capIdx]
     IN IF capture.dynSelf
          THEN /\ Apply(createFunctionArgument(State, "selfmeta", capture.cid, << >>,
                                               "Metatype").st)
               /\ ArgNo' = ArgNo
               /\ pc' = "done"
          ELSE /\ Apply(emitCaptureArguments(State, capture, ArgNo + 1))
               /\ ArgNo' = ArgNo + 1
               /\ pc' = "captures"
  /\ capIdx' = capIdx + 1
  /\ UNCHANGED << fn, retArgNo, paramIdx, ops >>

\* Line 475: the capture loop ends.
EndProlog ==
  /\ pc = "captures"
  /\ capIdx > Len(fn.captures)
  /\ pc' = "done"
  /\ UNCHANGED << fn, parameters, args, cleanups, scopes, fired, forwarded, retains,
                  copies, tuples, pops, VarLocs, debug, captured, ArgNo, retArgNo,
                  nval, paramIdx, capIdx, ops >>

\* The function's scope closes when the function body has been emitted.
CloseFunctionScope ==
  /\ pc = "done"
  /\ Apply(popScope(State))
  /\ pc' = "closed"
  /\ UNCHANGED << fn, ArgNo, retArgNo, paramIdx, capIdx, ops >>

Next ==
  \/ EmitSelfDecl
  \/ EmitIndirectResults
  \/ EmitParam
  \/ EmitErrorSlot
  \/ EmitCapture
  \/ EndProlog
  \/ CloseFunctionScope

Spec == Init /\ [][Next]_vars


(***************************************************************************)
(* The cleanup scope manager on its own: any sequence of push, register,   *)
(* forward and pop.                                                        *)
(***************************************************************************)
ScopeInit ==
  /\ fn = MkFn(<< >>, 0, "owned", Obj, << >>, FALSE, FALSE, TRUE, "none", "abort")
  /\ pc = "scope"
  /\ scopes = << >>
  /\ Empty

ScopeStep(st) ==
  /\ pc = "scope"
  /\ ops < MaxScopeOps
  /\ Apply(st)
  /\ ops' = ops + 1
  /\ UNCHANGED << pc, fn, ArgNo, retArgNo, paramIdx, capIdx >>

ScopePush ==
  /\ Len(scopes) <= MaxScopeOps
  /\ ScopeStep(pushScope(State))

ScopeRegister ==
  /\ Len(scopes) > 0
  /\ ScopeStep(pushCleanup([State EXCEPT !.nval = @ + 1], nval + 1, "destroy"))

ScopeForward ==
  \E i \in 1..Len(cleanups) :
    /\ cleanups[i].active
    /\ ScopeStep(forward(State, Managed(cleanups[i].val)))

ScopePop ==
  /\ Len(scopes) > 0
  /\ ScopeStep(popScope(State))

ScopeNext ==
  \/ ScopePush
  \/ ScopeRegister
  \/ ScopeForward
  \/ ScopePop

ScopeSpec == ScopeInit /\ [][ScopeNext]_vars

(***************************************************************************)
(* Properties.                                                             *)
(***************************************************************************)

\* C4: a pop (a step that closes the innermost scope) fires exactly the
\* cleanups still pending that were registered since the matching push, the
\* last registered first; it removes them from the stack, and leaves every
\* cleanup of the enclosing scopes as it was.
ScopeLIFO ==
  [][ Len(scopes') < Len(scopes) =>
        LET d == scopes[Len(scopes)]
            act == {i \in (d + 1)..Len(cleanups) : cleanups[i].active}
            seg == SubSeq(fired', Len(fired) + 1, Len(fired'))
        IN /\ Len(fired') >= Len(fired)
           /\ SubSeq(fired', 1, Len(fired)) = fired
           /\ Len(seg) = Cardinality(act)
           /\ \A k \in 1..Len(seg) :
                \E i \in act : /\ seg[k] = cleanups[i].val
                               /\ Cardinality({j \in act : j > i}) = k - 1
           /\ cleanups' = SubSeq(cleanups, 1, d)
           /\ scopes' = SubSeq(scopes, 1, Len(scopes) - 1) ]_vars

\* C4 witness: an inner scope with two cleanups was popped, later one first,
\* while a cleanup of the enclosing scope is still pending.
ScopeLIFOWitness ==
  /\ pc = "scope"
  /\ Len(fired) = 2 /\ fired[1] > fired[2]
  /\ Len(scopes) = 1
  /\ Len(cleanups) = 1 /\ cleanups[1].active /\ cleanups[1].val < fired[2]


\* The lowered function type has one well-formed ParameterInfo per leaf.
NumLeaves == Len(AllLeaves(BindingOrder(fn.paramLists)))
WellFormed ==
  /\ Len(fn.parameters) = NumLeaves
  /\ \A i \in 1..Len(fn.parameters) : fn.parameters[i].conv # "Indirect_In_Constant"

\* A reassembled tuple holds its elements at +1 unless it was formed from
\* borrowed elements alone.
TupleOwned(t) ==
  \/ t.inMemory
  \/ \E i \in 1..Len(t.elements) :
       t.elements[i].cleanup \/ t.operands[i] # t.elements[i].v

\* The values the parameter lowering holds at +1: owned arguments, retained
\* arguments, copies, and tuples built from moved or copied elements.
OwnedValues ==
  {args[i].v : i \in {j \in 1..Len(args) :
                        args[j].kind = "param" /\ args[j].conv \in OwnedConvs}}
    \cup Range(retains)
    \cup {copies[i].dst : i \in {j \in 1..Len(copies) :
                                  copies[j].op \in {"copy_block", "copy_value"}}}
    \cup {tuples[i].v : i \in {j \in 1..Len(tuples) : TupleOwned(tuples[j])}}

CaptureOwned == {captured[i].cleanupOn : i \in 1..Len(captured)} \ {0}

Pending(v) == Cardinality({i \in 1..Len(cleanups) : cleanups[i].val = v /\ cleanups[i].active})

\* C1: every value held at +1 by the parameter lowering is, at any time,
\* exactly one of: forwarded once, released once by a fired cleanup, or
\* pending release in an open scope; once the function's scope has closed it
\* was forwarded once or released once, never both and never neither; and
\* nothing else is ever forwarded or released.
SingleRelease ==
  (WellFormed /\ pc \in {"params", "captures", "done", "closed"}) =>
    /\ \A v \in OwnedValues :
         /\ Count(forwarded, v) + Count(fired, v) + Pending(v) = 1
         /\ pc = "closed" => Count(forwarded, v) + Count(fired, v) = 1
    /\ Range(forwarded) \subseteq OwnedValues
    /\ Range(fired) \subseteq OwnedValues \cup CaptureOwned

\* C1 witness: the scope has closed on a function whose lowering forwarded an
\* owned element into a tuple, made a copy, and released values by cleanup.
SingleReleaseWitness ==
  /\ WellFormed /\ pc = "closed"
  /\ \E v \in OwnedValues : Count(forwarded, v) = 1 /\ Count(fired, v) = 0
                              /\ \E i \in 1..Len(args) : args[i].v = v
  /\ \E v \in OwnedValues : Count(forwarded, v) = 0 /\ Count(fired, v) = 1
                              /\ \E i \in 1..Len(tuples) : tuples[i].v = v
  /\ \E i \in 1..Len(copies) : copies[i].op = "copy_block"
  /\ \E i \in 1..Len(copies) : copies[i].op = "copy_value"

\* The leaves of the explicit parameters in binding order, each with the
\* declaration it belongs to.
ExpectedLeaves ==
  LET order == BindingOrder(fn.paramLists)
  IN Concat([i \in 1..Len(order) |->
               LET ls == Leaves(order[i].ty, << >>)
               IN [j \in 1..Len(ls) |-> [pid |-> order[i].pid, path |-> ls[j].path]]])

ParamArgs == SelectSeq(args, LAMBDA a : a.kind = "param")

\* C2: when the ParameterInfo sequence is as long as the flattened leaves,
\* the i-th ParameterInfo popped is the i-th of the sequence and is paired
\* with the i-th leaf, depth first and left to right, of the parameters in
\* binding order, each pop creating that leaf's argument; when the explicit
\* parameters have been emitted every leaf has its ParameterInfo and the
\* sequence is empty.
LeafParity ==
  (Len(fn.parameters) = NumLeaves /\ pc \in {"params", "captures", "done", "closed"}) =>
    /\ Len(pops) <= NumLeaves
    /\ Len(ParamArgs) = Len(pops)
    /\ \A i \in 1..Len(pops) :
         /\ pops[i].ix = i
         /\ pops[i].conv = fn.parameters[i].conv
         /\ pops[i].pid = ExpectedLeaves[i].pid
         /\ pops[i].path = ExpectedLeaves[i].path
         /\ ParamArgs[i].v = pops[i].arg
         /\ ParamArgs[i].conv = pops[i].conv
    /\ parameters = SubSeq(fn.parameters, Len(pops) + 1, Len(fn.parameters))
    /\ pc \in {"captures", "done", "closed"} =>
         (Len(pops) = NumLeaves /\ parameters = << >>)

\* C2 witness: the explicit parameters are done; a named nested tuple and an
\* unnamed tuple were flattened into five leaves.
LeafParityWitness ==
  /\ pc = "captures" /\ Len(fn.parameters) = NumLeaves
  /\ Len(pops) = 5 /\ parameters = << >>
  /\ \E i \in 1..Len(pops) : Len(pops[i].path) = 2
  /\ \E i \in 1..Len(fn.paramLists[1]) : ~fn.paramLists[1][i].hasName

\* C3: a tuple whose elements are all unmanaged and whose type is loadable is
\* reassembled unmanaged and registers no cleanup; a tuple with an element
\* that carries a cleanup is reassembled with one new pending cleanup, its
\* own, every owned element was forwarded (its cleanup is no longer pending)
\* and every borrowed element went in as a copy.
TupleReassembly ==
  \A n \in 1..Len(tuples) :
    LET t == tuples[n]
        owned == {i \in 1..Len(t.elements) : t.elements[i].cleanup}
        borrowed == (1..Len(t.elements)) \ owned
    IN /\ (owned = {} /\ t.loadable) =>
            /\ ~t.managed /\ t.npushed = 0 /\ t.newActive = {}
            /\ \A i \in borrowed : t.operands[i] = t.elements[i].v
       /\ owned # {} =>
            /\ t.managed /\ t.newActive = {t.v}
            /\ t.elementsActive = {}
            /\ \A i \in owned : /\ t.operands[i] = t.elements[i].v
                                /\ Count(forwarded, t.elements[i].v) = 1
            /\ \A i \in borrowed :
                 \E c \in 1..Len(copies) :
                   /\ copies[c].src = t.elements[i].v
                   /\ \/ (~t.inMemory /\ copies[c].dst = t.operands[i])
                      \/ (t.inMemory /\ copies[c].into = t.v)

\* C3 witness: one function with a borrowed tuple, and a nested tuple that
\* mixes an owned and a borrowed element.
TupleReassemblyWitness ==
  /\ \E n \in 1..Len(tuples) :
       /\ ~tuples[n].managed /\ Len(tuples[n].elements) = 2 /\ tuples[n].loadable
  /\ \E n \in 1..Len(tuples) :
       /\ tuples[n].managed
       /\ \E i, j \in 1..Len(tuples[n].elements) :
            /\ tuples[n].elements[i].cleanup
            /\ ~tuples[n].elements[j].cleanup
       /\ \E i \in 1..Len(tuples[n].elements) :
            \E m \in 1..Len(tuples) : tuples[m].v = tuples[n].elements[i].v


\* The shape of the function: N indirect results, M explicit parameter
\* declarations, K capture records.
IndirectLeaves ==
  SelectSeq(Leaves(fn.resultType, << >>),
            LAMBDA l : isReturnedIndirectlyInSIL(l.ty, fn.useLoweredAddresses))
NumIndirect == Len(IndirectLeaves)
NumParams == Len(BindingOrder(fn.paramLists))
NumCaptures == Len(fn.captures)

\* The capture records before the first dynamic-self record (all of them
\* when there is none), and those among them that carry a value.
DynSelfAt == {i \in 1..NumCaptures : fn.captures[i].dynSelf}
Reached == {i \in 1..NumCaptures : \A j \in DynSelfAt : i < j}
ReachedWithValue == {i \in Reached : fn.captures[i].kind # "None"}

\* Every parameter a scalar, every capture a value, no dynamic self.
ScalarShape ==
  /\ NumLeaves = NumParams
  /\ DynSelfAt = {}
  /\ ReachedWithValue = 1..NumCaptures

IsErrorSlot(d) == d.var = << "$error", 0 >>
ErrorSlots == {i \in 1..Len(debug) : IsErrorSlot(debug[i])}
Finished == pc \in {"done", "closed"}

\* C5 as stated: N+M+K+1 entry-block arguments (an entry for the error slot,
\* after the captures) and a final ordinal of M+K+1.
OrderingAsClaimed ==
  (Finished /\ fn.throws /\ WellFormed /\ ScalarShape) =>
    /\ Len(args) = NumIndirect + NumParams + NumCaptures + 1
    /\ ArgNo = NumParams + NumCaptures + 1

\* C5 amended: a throwing function has one entry-block argument per indirect
\* result, per parameter leaf and per reached capture that carries a value
\* (plus the dynamic-self metatype), in that order and none for the error
\* slot; the parameter prologue returns M+1 and the last ordinal handed out
\* is M+1 plus the number of captures reached.
OrderingAmended ==
  (Finished /\ fn.throws /\ WellFormed) =>
    LET n == NumIndirect
        l == NumLeaves
        kv == Cardinality(ReachedWithValue)
        ds == IF DynSelfAt = {} THEN 0 ELSE 1
    IN /\ Len(args) = n + l + kv + ds
       /\ \A i \in 1..Len(args) :
            args[i].kind = IF i <= n THEN "indirect"
                           ELSE IF i <= n + l THEN "param"
                           ELSE IF i <= n + l + kv THEN "capture"
                           ELSE "selfmeta"
       /\ \A i, j \in 1..Len(args) :
            (i < j /\ args[i].kind = "capture" /\ args[j].kind = "capture")
              => args[i].decl < args[j].decl
       /\ retArgNo = NumParams + 1
       /\ ArgNo = NumParams + Cardinality(Reached) + 1
       /\ ScalarShape =>
            /\ Len(args) = NumIndirect + NumParams + NumCaptures
            /\ ArgNo = NumParams + NumCaptures + 1

\* C5 witness: a finished throwing function with two indirect results, two
\* parameters and two captures.
OrderingWitness ==
  /\ Finished /\ fn.throws /\ WellFormed /\ ScalarShape
  /\ NumIndirect = 2 /\ NumParams = 2 /\ NumCaptures = 2
  /\ Len(args) = 6 /\ ArgNo = 5

IsParamDebug(d) == d.var[1] = "param"
IsCaptureDebug(d) == d.var[1] = "capture"
KindRank(kind) == CASE kind = "indirect" -> 1 [] kind = "param" -> 2 [] OTHER -> 3
AllParamsBound == paramIdx > NumParams
CaptureBound == captured # << >> \/ \E i \in 1..Len(args) : args[i].kind = "selfmeta"

IndirectArgs == SelectSeq(args, LAMBDA a : a.kind = "indirect")
CleanupValues ==
  {cleanups[i].val : i \in 1..Len(cleanups)} \cup Range(fired) \cup Range(forwarded)

\* C8: once the indirect results are planned, the entry block starts with one
\* argument for each leaf of the result type that is returned indirectly, in
\* depth-first order, before every parameter and capture argument; none of
\* them ever has a cleanup, is retained or copied, or takes a ParameterInfo.
IndirectResults ==
  pc \in {"params", "captures", "done", "closed", "fatal"} =>
    /\ Len(IndirectArgs) = Len(IndirectLeaves)
    /\ \A i \in 1..Len(IndirectArgs) :
         /\ args[i] = IndirectArgs[i]
         /\ IndirectArgs[i].path = IndirectLeaves[i].path
         /\ IndirectArgs[i].v \notin CleanupValues
         /\ IndirectArgs[i].v \notin Range(retains)
         /\ \A c \in 1..Len(copies) : copies[c].src # IndirectArgs[i].v
         /\ \A q \in 1..Len(pops) : pops[q].arg # IndirectArgs[i].v
    /\ (pc = "params" /\ paramIdx = 1) =>
         /\ parameters = fn.parameters
         /\ Len(args) = Len(IndirectLeaves)
         /\ cleanups = << >> /\ pops = << >>

\* C8 witness: two indirect results of a nested tuple result type, followed
\* by a parameter argument and a capture argument.
IndirectResultsWitness ==
  /\ Finished
  /\ Len(IndirectArgs) = 2 /\ Len(IndirectArgs[2].path) = 2
  /\ Len(Leaves(fn.resultType, << >>)) = 3
  /\ \E i, j \in 1..Len(args) : args[i].kind = "param" /\ args[j].kind = "capture"

\* C9: what the resolver did for each leaf follows from the convention alone:
\* guaranteed: the argument unmanaged, no retain, no cleanup; unowned: one
\* retain and one cleanup; owned: one cleanup and no retain; inout: the
\* argument itself as an lvalue, no copy, no retain, no cleanup.
ConventionActions ==
  WellFormed =>
    \A i \in 1..Len(pops) :
      LET p == pops[i]
      IN /\ p.conv \in Conventions \ {"Indirect_In_Constant"}
         /\ p.mv.v = p.arg /\ p.ncopy = 0
         /\ p.conv \in GuaranteedConvs =>
              p.mv = forUnmanaged(p.arg) /\ p.nretain = 0 /\ p.ncleanup = 0
         /\ p.conv = "Direct_Unowned" =>
              p.mv = Managed(p.arg) /\ p.nretain = 1 /\ p.ncleanup = 1
         /\ p.conv \in OwnedConvs =>
              p.mv = Managed(p.arg) /\ p.nretain = 0 /\ p.ncleanup = 1
         /\ p.conv \in InoutConvs =>
              p.mv = forLValue(p.arg) /\ p.nretain = 0 /\ p.ncleanup = 0

\* C9 witness: one function whose leaves were resolved as unowned, as owned
\* and as inout.
ConventionActionsWitness ==
  /\ WellFormed
  /\ \E i, j, k \in 1..Len(pops) :
       /\ pops[i].conv = "Direct_Unowned" /\ pops[i].nretain = 1
       /\ pops[j].conv = "Indirect_In" /\ pops[j].mv.cleanup
       /\ pops[k].conv \in InoutConvs /\ pops[k].mv.lv

ByValueCaptures == {i \in 1..Len(captured) : captured[i].kind = "Constant"}

\* C10 as stated, for captures of non-trivial type: a ByValue capture gets a
\* release cleanup exactly when the closure context is not guaranteed, whether
\* or not the variable is mutable.
ByValueCleanupAsClaimed ==
  \A i \in ByValueCaptures :
    ~captured[i].trivial =>
      /\ ~fn.EnableGuaranteedClosureContexts => captured[i].ncleanup = 1
      /\ fn.EnableGuaranteedClosureContexts => captured[i].ncleanup = 0

\* C10 amended: a ByValue capture of non-trivial type gets one destroy cleanup
\* when the closure context is not guaranteed; in guaranteed mode it gets none
\* when the variable is not settable, and when the variable is settable the
\* copy stored in the local cell gets one; a trivial capture never gets one.
ByValueCleanup ==
  \A i \in ByValueCaptures :
    LET c == captured[i]
        g == fn.EnableGuaranteedClosureContexts
    IN /\ c.ncleanup \in {0, 1}
       /\ (c.ncleanup = 1) = (c.cleanupOn # 0)
       /\ c.trivial => c.ncleanup = 0
       /\ (~c.trivial /\ ~g) => c.ncleanup = 1 /\ c.cleanupOn = c.value
       /\ (g /\ ~c.settable) => c.ncleanup = 0 /\ c.value = c.arg /\ c.copy = 0
       /\ (g /\ c.settable /\ ~c.trivial) =>
            /\ c.ncleanup = 1 /\ c.cleanupOn = c.value
            /\ c.copy # 0 /\ c.value # c.arg

\* C10 witness: in guaranteed mode, a settable non-trivial capture with its
\* cleanup beside a non-settable one without.
ByValueCleanupWitness ==
  /\ fn.EnableGuaranteedClosureContexts
  /\ \E i, j \in ByValueCaptures :
       /\ captured[i].settable /\ ~captured[i].trivial /\ captured[i].ncleanup = 1
       /\ ~captured[j].settable /\ ~captured[j].trivial /\ captured[j].ncleanup = 0

BoxCaptures == {i \in 1..Len(captured) : captured[i].kind = "Box"}
ArgsOf(kind, decl) == {i \in 1..Len(args) : args[i].kind = kind /\ args[i].decl = decl}
VarLocsOf(var) == {i \in 1..Len(VarLocs) : VarLocs[i].var = var}
CleanupsOn(v) == {i \in 1..Len(cleanups) : cleanups[i].val = v}

\* C11: a MutableCell (Box) capture has exactly one entry-block argument, the
\* box; its variable is bound to (address, box) where the address is a value
\* projected from the box, not an argument; with guaranteed contexts off one
\* strong_release cleanup is registered, on the box, and it releases the box
\* once when the function's scope closes; with guaranteed contexts on none is
\* registered; the projected address never has a cleanup and is never released.
BoxCapture ==
  \A i \in BoxCaptures :
    LET c == captured[i]
        var == << "capture", c.cid >>
        g == fn.EnableGuaranteedClosureContexts
    IN /\ Cardinality(ArgsOf("capture", c.cid)) = 1
       /\ \A a \in ArgsOf("capture", c.cid) : args[a].v = c.box /\ args[a].conv = "Box"
       /\ Cardinality(VarLocsOf(var)) = 1
       /\ \A l \in VarLocsOf(var) :
            /\ VarLocs[l].box = c.box
            /\ VarLocs[l].value # c.box
            /\ \A a \in 1..Len(args) : args[a].v # VarLocs[l].value
            /\ CleanupsOn(VarLocs[l].value) = {}
            /\ Count(fired, VarLocs[l].value) = 0
       /\ pc \in {"captures", "done"} =>
            /\ Cardinality(CleanupsOn(c.box)) = IF g THEN 0 ELSE 1
            /\ \A k \in CleanupsOn(c.box) :
                 cleanups[k].active /\ cleanups[k].kind = "strong_release"
       /\ pc = "closed" => Count(fired, c.box) = IF g THEN 0 ELSE 1

\* C11 witness: the scope of a function with a box capture has closed and the
\* box was released, with guaranteed contexts off.
BoxCaptureWitness ==
  /\ pc = "closed" /\ ~fn.EnableGuaranteedClosureContexts
  /\ \E i \in BoxCaptures : Count(fired, captured[i].box) = 1
  /\ \E i \in 1..Len(captured) : captured[i].kind = "Constant"

\* The first capture record flagged as dynamic-self metadata (0 when none).
FirstDynSelf == IF DynSelfAt = {} THEN 0
                ELSE CHOOSE d \in DynSelfAt : \A e \in DynSelfAt : d <= e

\* C12: capture processing stops at the first dynamic-self record d.  At no
\* time is a record at or after d bound by emitCaptureArguments, given a
\* variable location, a debug value or a cleanup, and no record after d gets
\* an argument; once the prologue has finished, the records before d were all
\* bound, in order, each with its own ordinal, the record d has exactly one
\* argument (a metatype, the last of the entry block), the ordinal counter
\* stands where the last record before d left it, and no record after d was
\* read.
DynamicSelfStops ==
  (FirstDynSelf # 0 /\ WellFormed) =>
    LET d == FirstDynSelf
    IN /\ \A i \in 1..Len(captured) : captured[i].cid < d
       /\ \A i \in 1..Len(VarLocs) :
            VarLocs[i].var[1] = "capture" => VarLocs[i].var[2] < d
       /\ \A i \in 1..Len(debug) :
            IsCaptureDebug(debug[i]) => debug[i].var[2] < d
       /\ \A i \in 1..Len(args) :
            /\ args[i].kind = "capture" => args[i].decl < d
            /\ args[i].kind = "selfmeta" =>
                 /\ args[i].decl = d /\ i = Len(args)
                 /\ CleanupsOn(args[i].v) = {} /\ Count(fired, args[i].v) = 0
       /\ capIdx <= d + 1
       /\ Finished =>
            /\ [i \in 1..Len(captured) |-> captured[i].cid] = [i \in 1..(d - 1) |-> i]
            /\ Cardinality(ArgsOf("selfmeta", d)) = 1
            /\ capIdx = d + 1
            /\ ArgNo = retArgNo + (d - 1)
            /\ \A i \in 1..(d - 1) :
                 fn.captures[i].kind # "None" =>
                   \E k \in 1..Len(debug) :
                     debug[k].var = << "capture", i >> /\ debug[k].ArgNo = retArgNo + i

\* C12 witness: a finished prologue with a capture record before the
\* dynamic-self one, bound with its ordinal, and one after it, never read: the
\* metatype argument is the last argument.
DynamicSelfStopsWitness ==
  /\ Finished /\ FirstDynSelf = 2 /\ NumCaptures = 3 /\ ~fn.captures[3].dynSelf
  /\ fn.captures[3].kind # "None"
  /\ Len(captured) = 1 /\ captured[1].kind # "None" /\ capIdx = 3
  /\ args[Len(args)].kind = "selfmeta" /\ args[Len(args) - 1].kind = "capture"
  /\ ArgNo = retArgNo + 1

\* The types an unnamed parameter of type t is discarded as, one discard scope
\* each: the elements of a non-materializable tuple, and t itself otherwise.
RECURSIVE DiscardUnits(_)
RECURSIVE DiscardUnitsOfElts(_, _)
DiscardUnits(t) ==
  IF ~isMaterializable(t) /\ t.k = "tuple" THEN DiscardUnitsOfElts(t.elts, 1)
  ELSE << t >>
DiscardUnitsOfElts(es, i) ==
  IF i > Len(es) THEN << >>
  ELSE DiscardUnits(es[i]) \o DiscardUnitsOfElts(es, i + 1)

\* The place of the first occurrence of v in the sequence s (0 when absent).
IndexOf(s, v) == IF \E i \in 1..Len(s) : s[i] = v
                 THEN CHOOSE i \in 1..Len(s) : s[i] = v /\ \A j \in 1..(i - 1) : s[j] # v
                 ELSE 0

\* C13: a step that processes an unnamed parameter (and does not end in the
\* fatal state) leaves the cleanup stack, the open scopes and the variable
\* locations as they were; it creates one argument per leaf of the parameter,
\* in order, and consumes one ParameterInfo per leaf; every value it came to
\* own was released or forwarded exactly once and has no pending cleanup; and
\* when the parameter is a non-materializable tuple whose discard units are
\* leaves no tuple value is formed, and what is released for an earlier
\* element is released before what is released for a later one.
UnnamedDiscard ==
  [][ ( /\ pc = "params" /\ pc' = "params"
        /\ paramIdx <= NumParams /\ paramIdx' = paramIdx + 1
        /\ ~BindingOrder(fn.paramLists)[paramIdx].hasName )
      =>
      LET PD == BindingOrder(fn.paramLists)[paramIdx]
          ls == Leaves(PD.ty, << >>)
          units == DiscardUnits(PD.ty)
          new == (Len(pops) + 1)..Len(pops')
      IN /\ cleanups' = cleanups /\ scopes' = scopes /\ VarLocs' = VarLocs
         /\ Len(args') = Len(args) + Len(ls)
         /\ SubSeq(args', 1, Len(args)) = args
         /\ \A j \in 1..Len(ls) :
              /\ args'[Len(args) + j].kind = "param"
              /\ args'[Len(args) + j].decl = PD.pid
              /\ args'[Len(args) + j].path = ls[j].path
         /\ Len(pops') = Len(pops) + Len(ls)
         /\ Len(parameters) >= Len(ls) =>
              parameters' = SubSeq(parameters, Len(ls) + 1, Len(parameters))
         /\ WellFormed =>
              \A v \in OwnedValues' \ OwnedValues :
                /\ Count(fired', v) + Count(forwarded', v) = 1
                /\ \A c \in 1..Len(cleanups') : cleanups'[c].val # v
         /\ SubSeq(fired', 1, Len(fired)) = fired
         /\ (\A u \in 1..Len(units) : units[u].k = "leaf") =>
              /\ tuples' = tuples
              /\ \A i, j \in new :
                   (i < j /\ IndexOf(fired', pops'[i].out.v) # 0
                          /\ IndexOf(fired', pops'[j].out.v) # 0)
                     => IndexOf(fired', pops'[i].out.v) < IndexOf(fired', pops'[j].out.v)
    ]_vars

\* C13 witness: an unnamed non-materializable nested tuple has been processed
\* after another parameter: its three leaves have arguments, what it owned
\* (a block copy among it) has been released, no tuple was formed, nothing was
\* bound for it, and no scope but the function's is open.
UnnamedDiscardWitness ==
  /\ pc = "params" /\ paramIdx = 3 /\ WellFormed
  /\ ~BindingOrder(fn.paramLists)[2].hasName
  /\ ~isMaterializable(BindingOrder(fn.paramLists)[2].ty)
  /\ BindingOrder(fn.paramLists)[1].hasName
  /\ Len(Leaves(BindingOrder(fn.paramLists)[2].ty, << >>)) = 3
  /\ Cardinality(ArgsOf("param", 2)) = 3
  /\ Len(fired) >= 2 /\ \E i \in 1..Len(copies) : Count(fired, copies[i].dst) = 1
  /\ Len(scopes) = 1 /\ VarLocsOf(<< "param", 2 >>) = {}
  /\ \A c \in 1..Len(cleanups) : cleanups[c].val < args[Len(args) - 2].v

\* C14 as stated: when the ParameterInfo sequence is not as long as the
\* flattened leaves of the declared parameters (shorter or longer), the
\* prologue never gets past the explicit parameters: it does not return an
\* ordinal, binds no capture and does not complete.
LengthMismatchFatal ==
  (Len(fn.parameters) # NumLeaves) =>
    /\ pc \notin {"captures", "done", "closed"}
    /\ retArgNo = 0

BoundVars ==
  {<< "self", 0 >> : x \in {y \in {0} : fn.destructor /\ pc # "start"}}
    \cup {<< "param", BindingOrder(fn.paramLists)[i].pid >> :
            i \in {j \in 1..(paramIdx - 1) : BindingOrder(fn.paramLists)[j].hasName}}
    \cup {<< "capture", captured[i].cid >> :
            i \in {j \in 1..Len(captured) : captured[j].kind # "None"}}

\* C16: in one activation no variable's location is written twice: the writes
\* of VarLocs are for pairwise different variables, so an entry once written
\* keeps its value; and the variables written are exactly the self
\* declaration, the named parameters and the captures bound so far.
VarLocsWriteOnce ==
  pc # "fatal" =>
    /\ \A i, j \in 1..Len(VarLocs) : i # j => VarLocs[i].var # VarLocs[j].var
    /\ {VarLocs[i].var : i \in 1..Len(VarLocs)} = BoundVars

\* C16 witness: a finished prologue that bound a named parameter, a box
\* capture and a settable by-value capture, three entries in all.
VarLocsWriteOnceWitness ==
  /\ Finished /\ Len(VarLocs) = 3
  /\ VarLocs[1].var[1] = "param"
  /\ \E i \in 2..3 : VarLocs[i].box # 0
  /\ \E i \in ByValueCaptures : captured[i].settable /\ captured[i].copy # 0

\* The parameter list a declaration belongs to (1 is the outermost, the first
\* declared) and its place in that list.
ListOf(pid) ==
  CHOOSE l \in 1..Len(fn.paramLists) :
    \E k \in 1..Len(fn.paramLists[l]) : fn.paramLists[l][k].pid = pid
PosOf(pid) ==
  CHOOSE k \in 1..Len(fn.paramLists[ListOf(pid)]) : fn.paramLists[ListOf(pid)][k].pid = pid

\* p is bound before q: p is in a list declared after q's, or in the same
\* list and declared earlier.
BoundBefore(p, q) ==
  \/ ListOf(p) > ListOf(q)
  \/ ListOf(p) = ListOf(q) /\ PosOf(p) < PosOf(q)

AllPids == UNION {{fn.paramLists[l][k].pid : k \in 1..Len(fn.paramLists[l])} :
                    l \in 1..Len(fn.paramLists)}

\* C17: the explicit parameters are bound from the last declared list to the
\* first and in declaration order within a list: of two entry-block arguments
\* of different parameters the earlier belongs to the parameter of the later
\* list (or of the same list, declared earlier); a parameter's ordinal is one
\* more than the number of parameters bound before it, and the ordinals are
\* handed out in that same order.
ParamListOrder ==
  pc # "fatal" =>
    /\ \A i, j \in 1..Len(args) :
         (i < j /\ args[i].kind = "param" /\ args[j].kind = "param"
                /\ args[i].decl # args[j].decl)
           => BoundBefore(args[i].decl, args[j].decl)
    /\ \A i \in 1..Len(debug) :
         IsParamDebug(debug[i]) =>
           debug[i].ArgNo =
             1 + Cardinality({q \in AllPids : BoundBefore(q, debug[i].var[2])})
    /\ \A i, j \in 1..Len(debug) :
         (i < j /\ IsParamDebug(debug[i]) /\ IsParamDebug(debug[j]))
           => /\ BoundBefore(debug[i].var[2], debug[j].var[2])
              /\ debug[i].ArgNo < debug[j].ArgNo

\* C17 witness: three parameter lists (a)(b, c)(d), all bound: the arguments
\* come in the order d, b, c, a and a has ordinal 4, d ordinal 1.
ParamListOrderWitness ==
  /\ pc = "captures" /\ Len(fn.paramLists) = 3 /\ WellFormed
  /\ Len(fn.paramLists[2]) = 2
  /\ args[Len(args)].decl = fn.paramLists[1][1].pid
  /\ args[Len(args) - NumLeaves + 1].decl = fn.paramLists[3][1].pid
  /\ \E i, j \in 1..Len(debug) :
       /\ debug[i].var = << "param", fn.paramLists[3][1].pid >> /\ debug[i].ArgNo = 1
       /\ debug[j].var = << "param", fn.paramLists[1][1].pid >> /\ debug[j].ArgNo = 4
  /\ \E i, j \in 1..Len(args) :
       /\ i < j /\ args[i].decl = fn.paramLists[2][1].pid
       /\ args[j].decl = fn.paramLists[2][2].pid

AddressArgs == {args[i].v : i \in {j \in 1..Len(args) : args[j].conv = "StorageAddress"}}

\* C18: the step that processes a capture of kind None changes nothing of the
\* function being built: no argument, no variable location, no debug value, no
\* cleanup, no value.  The step that processes a capture of kind
\* StorageAddress (AddressAlias) adds exactly one argument, an address, binds
\* the variable to that very argument with no box, creates no other value (no
\* local cell, no copy) and leaves the cleanup stack as it was, whether the
\* closure context is guaranteed or not; and no step ever releases such an
\* argument.
NoneAndAddressCaptures ==
  [][ /\ (pc = "captures" /\ capIdx <= NumCaptures /\ capIdx' = capIdx + 1
          /\ ~fn.captures[capIdx].dynSelf)
        =>
        LET c == fn.captures[capIdx]
            var == << "capture", c.cid >>
            a == args'[Len(args')]
        IN /\ c.kind = "None" =>
                UNCHANGED << args, VarLocs, debug, cleanups, scopes, fired, forwarded,
                             retains, copies, nval, parameters >>
           /\ c.kind = "StorageAddress" =>
                /\ args' = Append(args, a)
                /\ a.kind = "capture" /\ a.decl = c.cid /\ a.conv = "StorageAddress"
                /\ a.v = nval + 1 /\ nval' = nval + 1
                /\ VarLocs' = Append(VarLocs, VarLoc(var, a.v, 0))
                /\ debug' = Append(debug, [var |-> var, v |-> a.v, ArgNo |-> ArgNo',
                                           op |-> "debug_value_addr"])
                /\ UNCHANGED << cleanups, scopes, fired, forwarded, retains, copies,
                                parameters >>
      /\ \A v \in AddressArgs : Count(fired', v) = 0 /\ CleanupsOn(v) = {}
    ]_vars

\* C18 witness: the scope of a closure with a None capture and a
\* StorageAddress capture has closed, the context not guaranteed: one
\* argument, one variable location, nothing released.
NoneAndAddressCapturesWitness ==
  /\ pc = "closed" /\ ~fn.EnableGuaranteedClosureContexts
  /\ Len(captured) = 2
  /\ captured[1].kind = "None" /\ captured[2].kind = "StorageAddress"
  /\ Len(args) = 1 /\ args[1].conv = "StorageAddress"
  /\ Len(VarLocs) = 1 /\ VarLocs[1].value = args[1].v /\ VarLocs[1].box = 0
  /\ fired = << >> /\ ArgNo = retArgNo + 2

BlockPops == {i \in 1..Len(pops) : pops[i].block}

\* C19: for a block (or Optional block) leaf of a function entry point with
\* convention guaranteed, unowned or owned, exactly one copy_block of the
\* incoming argument is emitted; the value returned is the copy, with a
\* cleanup of its own, registered once (pending, forwarded into a tuple, or
\* fired: one of the three); the original keeps what the convention gave it:
\* no cleanup when guaranteed, and otherwise one cleanup that is never
\* forwarded, stays pending while its scope is open and has fired exactly once
\* when the function's scope has closed, as has the copy's unless forwarded.
BlockDefensiveCopy ==
  \A i \in BlockPops :
    LET p == pops[i]
        cs == {k \in 1..Len(copies) : copies[k].src = p.arg}
    IN p.conv \in {"Direct_Guaranteed", "Direct_Unowned", "Direct_Owned"} =>
         /\ Cardinality(cs) = 1
         /\ \A k \in cs : copies[k].op = "copy_block" /\ copies[k].dst = p.out.v
         /\ p.out.v # p.arg /\ p.out.cleanup
         /\ Count(forwarded, p.out.v) + Count(fired, p.out.v) + Pending(p.out.v) = 1
         /\ p.mv.v = p.arg
         /\ p.mv.cleanup = (p.conv # "Direct_Guaranteed")
         /\ p.ncleanup = IF p.conv = "Direct_Guaranteed" THEN 0 ELSE 1
         /\ Count(forwarded, p.arg) = 0
         /\ Count(fired, p.arg) + Pending(p.arg) = p.ncleanup
         /\ pc = "closed" =>
              /\ Count(fired, p.arg) = p.ncleanup
              /\ Count(forwarded, p.out.v) + Count(fired, p.out.v) = 1

\* C19 witness: the function's scope has closed after two block parameters,
\* one owned and one guaranteed: the owned original and both copies were each
\* released once.
BlockDefensiveCopyWitness ==
  /\ pc = "closed" /\ WellFormed
  /\ \E i, j \in BlockPops :
       /\ pops[i].conv = "Direct_Owned" /\ pops[j].conv = "Direct_Guaranteed"
       /\ Count(fired, pops[i].arg) = 1 /\ Count(fired, pops[i].out.v) = 1
       /\ Count(fired, pops[j].arg) = 0 /\ Count(fired, pops[j].out.v) = 1

\* The ordinals consumed so far: one per parameter declaration processed, one
\* for the error slot of a throwing function once the parameter prologue has
\* returned, one per capture record processed by emitCaptureArguments.
OrdinalsConsumed ==
  (paramIdx - 1)
    + (IF fn.throws /\ pc \in {"captures", "done", "closed"} THEN 1 ELSE 0)
    + Len(captured)

\* The place of a parameter declaration in the order of binding.
BindingPlace(pid) ==
  CHOOSE k \in 1..NumParams : BindingOrder(fn.paramLists)[k].pid = pid

\* C20: in a closure prologue the ordinal counter stands at the number of
\* parameter declarations, error slot and capture records processed, each
\* having consumed exactly one (a tuple parameter one for all its leaves, a
\* None capture one as well, the dynamic-self record none); the ordinals that
\* appear in debug values are pairwise distinct, increase in order of
\* emission and lie in 1..counter; the k-th parameter bound has ordinal k, the
\* error slot M+1, and the i-th capture record the ordinal returned by the
\* parameter prologue plus i.
OrdinalNumbering ==
  ~fn.destructor =>
    /\ ArgNo = OrdinalsConsumed
    /\ \A i \in 1..Len(debug) : debug[i].ArgNo \in 1..ArgNo
    /\ \A i, j \in 1..Len(debug) : i < j => debug[i].ArgNo < debug[j].ArgNo
    /\ \A i \in 1..Len(debug) :
         /\ IsParamDebug(debug[i]) => debug[i].ArgNo = BindingPlace(debug[i].var[2])
         /\ IsErrorSlot(debug[i]) => debug[i].ArgNo = NumParams + 1
         /\ IsCaptureDebug(debug[i]) => debug[i].ArgNo = retArgNo + debug[i].var[2]
    /\ pc \in {"captures", "done", "closed"} =>
         retArgNo = NumParams + (IF fn.throws THEN 1 ELSE 0)
    /\ Finished =>
         ArgNo = NumParams + (IF fn.throws THEN 1 ELSE 0) + Cardinality(Reached)

\* C20 witness: a finished throwing closure with a named tuple parameter, an
\* unnamed non-materializable tuple parameter (four leaves in all), a None
\* capture and a box capture: five ordinals consumed, of which 1, 3 and 5
\* appear in debug values.
OrdinalNumberingWitness ==
  /\ Finished /\ fn.throws /\ WellFormed
  /\ NumParams = 2 /\ NumLeaves = 4 /\ NumCaptures = 2 /\ DynSelfAt = {}
  /\ fn.captures[1].kind = "None"
  /\ ArgNo = 5
  /\ [i \in 1..Len(debug) |-> debug[i].ArgNo] = << 1, 3, 5 >>

\* Whether the rule gives the by-value capture c a destroy cleanup.
ByValueNeedsDestroy(c) ==
  ~c.trivial /\ (~fn.EnableGuaranteedClosureContexts \/ c.settable)

\* C21: the step that binds a by-value (Constant) capture adds one argument
\* and one variable location, and pushes exactly one destroy cleanup if and
\* only if the type is not trivial and (the context is not guaranteed or the
\* variable is settable), none otherwise.  For a settable variable the
\* location is a freshly allocated cell, not the argument, the cleanup (if
\* any) is on the cell, and in guaranteed mode one copy of the argument is made
\* for it (none otherwise); for a variable that is not settable the location
\* is the argument itself, nothing is allocated or copied, and the cleanup (if
\* any) is on the argument.  When the function's scope closes, the location of
\* each by-value capture is released once if the rule gave it a cleanup and
\* not at all otherwise.
ByValueExactRule ==
  [][ /\ (pc = "captures" /\ capIdx <= NumCaptures /\ capIdx' = capIdx + 1
          /\ fn.captures[capIdx].kind = "Constant" /\ ~fn.captures[capIdx].dynSelf)
        =>
        LET c == fn.captures[capIdx]
            g == fn.EnableGuaranteedClosureContexts
            a == args'[Len(args')]
            loc == VarLocs'[Len(VarLocs')]
            top == cleanups'[Len(cleanups')]
        IN /\ args' = Append(args, a)
           /\ a.kind = "capture" /\ a.decl = c.cid /\ a.v = nval + 1
           /\ VarLocs' = Append(VarLocs, loc)
           /\ loc.var = << "capture", c.cid >> /\ loc.box = 0
           /\ IF ByValueNeedsDestroy(c)
                THEN cleanups' = Append(cleanups, top)
                       /\ top = [val |-> loc.value, active |-> TRUE, kind |-> "destroy"]
                ELSE cleanups' = cleanups
           /\ IF c.settable
                THEN /\ loc.value = nval + 2
                     /\ \A i \in 1..Len(args') : args'[i].v # loc.value
                     /\ IF g THEN /\ nval' = nval + 3
                                  /\ copies' = Append(copies,
                                       [src |-> a.v, dst |-> nval + 3, into |-> 0,
                                        op |-> "copy_value_stored"])
                             ELSE nval' = nval + 2 /\ copies' = copies
                ELSE loc.value = a.v /\ nval' = nval + 1 /\ copies' = copies
           /\ UNCHANGED << scopes, fired, forwarded, retains, parameters >>
      /\ (pc = "done" /\ pc' = "closed") =>
           \A i \in 1..Len(captured) :
             captured[i].kind = "Constant" =>
               \A l \in VarLocsOf(<< "capture", captured[i].cid >>) :
                 Count(fired', VarLocs[l].value) =
                   IF ByValueNeedsDestroy(fn.captures[captured[i].cid]) THEN 1 ELSE 0
    ]_vars

\* C21 witness: the scope of a closure without parameters has closed, the
\* context not guaranteed, after a settable non-trivial by-value capture (its
\* cell released, not its argument) and a trivial one (nothing released).
ByValueExactRuleWitness ==
  /\ pc = "closed" /\ ~fn.EnableGuaranteedClosureContexts /\ NumParams = 0
  /\ Len(captured) = 2
  /\ captured[1].kind = "Constant" /\ captured[1].settable /\ ~captured[1].trivial
  /\ captured[2].kind = "Constant" /\ captured[2].trivial
  /\ Len(VarLocs) = 2 /\ VarLocs[1].value # args[1].v
  /\ fired = << VarLocs[1].value >> /\ copies = << >>

=============================================================================
